---- MODULE Spec2Model ----
(***************************************************************************)
(* AudioTranscriptionThread (src/whisper_typing.py, the same code with an  *)
(* API backend in src/whisper_typing_hf.py) and the two handlers of        *)
(* SpeechToTextApp that drive it.  Three threads share the object:         *)
(*   - the UI thread: toggle_listening (start / stop+wait), toggle_pause;  *)
(*   - the controller thread: run();                                       *)
(*   - the audio thread of the input stream: callback().                   *)
(* Each action is one step of one thread between two accesses to shared    *)
(* fields (running, paused, audio_queue), so every interleaving of the     *)
(* three threads is a behaviour of the model.                              *)
(*                                                                         *)
(* Also modelled: the settings handlers toggle_auto_type and               *)
(* apply_language_and_prompt, the load_model thread of update_model, the   *)
(* loop of run() over the returned segments, and the response handling of  *)
(* HuggingFaceWhisperModel.transcribe (src/huggingface_whisper.py).        *)
(* A text is a sequence of tokens, " " being one whitespace character.     *)
(*                                                                         *)
(* Audio levels are integers in thousandths: 0.005 is 5, 0.01 is 10.       *)
(***************************************************************************)
EXTENDS Integers, Sequences, FiniteSets, TLC

\* ---- bounds of the model ----
MaxFrames == 3    \* callback invocations in a behaviour of Spec
MaxAppFrames == 2 \* callback invocations in a behaviour of AppSpec
MaxRun == 7       \* callback invocations in a behaviour of AdmitSpec
MaxBuf == 5       \* callback invocations in a behaviour of BufSpec
MaxQueue == 2     \* frames waiting in audio_queue when the producer delivers
MaxStarts == 2    \* toggle_listening calls that start the thread
MaxItems == 2     \* items of a segmented response of the inference API
MaxToggles == 2   \* toggle_pause calls

\* ---- program constants ----
buffer_max_size == 5
trigger_level == 10
\* a silent frame (0.005), a frame exactly at 3 x trigger_level (0.03), a loud one (0.05)
Levels == {5, 30, 50}

VARIABLES
    running,        \* self.running
    paused,         \* self.paused
    model,          \* self.model: "none" or "loaded"
    audio_queue,    \* self.audio_queue: sequence of frames
    audio_buffer,   \* self.audio_buffer: the buffered frames, by id
    stream_open,    \* the sd.InputStream of run() is open
    is_listening,   \* SpeechToTextApp.is_listening
    is_paused,      \* SpeechToTextApp.is_paused
    uipc,           \* UI thread: "idle", or "stop_wait" inside stop()'s self.wait()
    ctl,            \* controller thread: position in run(); "none" when not running
    audio_chunk,    \* run(): the frame returned by audio_queue.get, <<>> if none
    audio_data,     \* run(): the chunk handed to model.transcribe, its frames by id
    inflight,       \* number of model.transcribe calls that have not returned
    cb,             \* audio thread: position in callback()
    cb_frame,       \* callback(): indata, <<>> outside the callback
    cb_pz,          \* history: paused held at every step of this callback so far
    cbCount,        \* history: callback invocations so far
    levelEmits,     \* history: audio_level_update emissions so far
    pausedIds,      \* history: the frames whose whole callback ran while paused
    starts,         \* history: starts of the thread so far
    sess_toggles,   \* history: toggle_pause calls since the last start
    tp_hist,        \* history: <<before, after, returned>> of every toggle_pause
    stopInFlight,   \* history: the last stop() was called with a call in flight
    lateCall,       \* history: a call started after such a stop()
    lastAdmit,      \* history: <<buffer length, level, triggered>> of the last append
    sil,            \* history: consecutive sub-threshold frames appended
    baseLen,        \* history: buffer length when that run of silent frames began
    trigAt,         \* history: positions in that run at which a chunk was triggered
    auto_type,      \* self.auto_type
    language,       \* self.language
    auto_detect_language, \* self.auto_detect_language
    initial_prompt, \* self.initial_prompt
    loader,         \* the load_model thread of update_model: "loading", then what it emitted
    call_kwargs,    \* run(): transcription_kwargs of the call, <<>> outside a call
    segs,           \* run(): the segments of the result not yet iterated
    log,            \* history: the events of the chunk being processed, in order
    done,           \* history: the segments iterated, each with the auto_type read
    last_text,      \* history: the last text emitted by transcription_done in this run
    chunk_calls,    \* history: transcribe calls made for the chunk being processed
    raisedOnce,     \* history: a transcribe call has raised in this run
    status,         \* history: the status_update messages of this run, in order
    runFailed,      \* history: WhisperModel(...) raised in this run
    cb_lis,         \* history: paused was false at every step of this callback so far
    lisIds,         \* history: frames enqueued by a callback that never saw paused
    lostListening,  \* history: run() discarded a frame delivered wholly while listening
    held,           \* history: audio_buffer as it was at the last pause, until the
                    \* call for the next chunk starts
    trig_cfg,       \* history: language, auto-detect flag and prompt at the trigger
    typeRaisedAt,   \* history: the place in log of a keyboard.type call that raised
    response,       \* the HTTP response handed to HuggingFaceWhisperModel.transcribe
    normalized      \* what HuggingFaceWhisperModel.transcribe returned for it

vars == <<running, paused, model, audio_queue, audio_buffer, stream_open,
          is_listening, is_paused, uipc, ctl, audio_chunk, audio_data, inflight,
          cb, cb_frame, cb_pz, cbCount, levelEmits, pausedIds, starts,
          sess_toggles, tp_hist, stopInFlight, lateCall, lastAdmit, sil, baseLen,
          trigAt, auto_type, language, auto_detect_language, initial_prompt, loader,
          call_kwargs, segs, log, done, last_text, chunk_calls, raisedOnce,
          status, runFailed, cb_lis, lisIds, lostListening, held, trig_cfg,
          typeRaisedAt, response, normalized>>

shared == <<running, paused, model, audio_queue, audio_buffer, stream_open>>
appVars == <<is_listening, is_paused, uipc>>
ctlVars == <<ctl, audio_chunk, audio_data, inflight>>
cbVars == <<cb, cb_frame, cb_pz, cbCount, levelEmits, pausedIds>>
uiHist == <<starts, sess_toggles, tp_hist>>
stopHist == <<stopInFlight, lateCall>>
admitHist == <<lastAdmit, sil, baseLen, trigAt>>
cfgVars == <<auto_type, language, auto_detect_language, initial_prompt>>
resVars == <<call_kwargs, segs, log, done, last_text, chunk_calls, raisedOnce>>
runVars == <<status, runFailed>>
lossVars == <<cb_lis, lisIds, lostListening>>
apiVars == <<response, normalized>>
chunkHist == <<held, trig_cfg, typeRaisedAt>>
\* the added variables, and the same without one group
ext == <<cfgVars, loader, resVars, runVars, lossVars, apiVars, chunkHist>>
extButCfg == <<loader, resVars, runVars, lossVars, apiVars, chunkHist>>
extButLoss == <<cfgVars, loader, resVars, runVars, apiVars, chunkHist>>
extButRun == <<cfgVars, loader, resVars, lossVars, apiVars, chunkHist>>
extButRes == <<cfgVars, loader, runVars, lossVars, apiVars, chunkHist>>
extButResRun == <<cfgVars, loader, lossVars, apiVars, chunkHist>>

NoFrame == <<>>
Ids(s) == {s[i] : i \in 1..Len(s)}

\* ---- texts ----
\* A text is a sequence of tokens; the token " " is one whitespace character and
\* every other token is a word.
IsSpace(tok) == tok = " "

\* str.lstrip()
RECURSIVE LStrip(_)
LStrip(t) == IF t # <<>> /\ IsSpace(Head(t)) THEN LStrip(Tail(t)) ELSE t

\* str.rstrip()
RECURSIVE RStrip(_)
RStrip(t) ==
    IF t # <<>> /\ IsSpace(t[Len(t)]) THEN RStrip(SubSeq(t, 1, Len(t) - 1)) ELSE t

\* segment.text.strip()
Strip(t) == RStrip(LStrip(t))

\* segment texts a model can return
Empty == <<>>
Blank == <<" ">>
Hi == <<" ", "hi", " ">>
ThankYou == <<" ", "Thank", " ", "you.">>
HelloOrder ==
    <<" ", "Hello,", " ", "thank", " ", "you", " ", "for", " ", "calling", " ",
      "about", " ", "the", " ", "order">>

\* the segments a transcribe call of Spec can return
SpecResults == {<<>>, <<Blank, Hi>>}

\* the segments a transcribe call of AdmitSpec can return: silence
AdmitResults == {<<Blank>>}

\* the segments a transcribe call of AppSpec can return
AppResults ==
    {<<>>, <<Empty>>, <<Blank, Hi>>, <<ThankYou>>, <<Hi, HelloOrder>>,
     <<ThankYou, Blank, Hi>>}

\* the language combo: its current data, None for "Auto Detect", and its text
LanguageItems ==
    {[data |-> "None", text |-> "Auto Detect"], [data |-> "en", text |-> "en"],
     [data |-> "fr", text |-> "fr"]}

\* what the user can have typed in the prompt edit
Prompts == {<<>>, <<"Acme", " ", "Corp">>}

\* AudioTranscriptionThread.__init__, at the end of SpeechToTextApp.__init__
InitThread ==
    /\ running = FALSE
    /\ paused = FALSE
    /\ model = "none"
    /\ audio_queue = <<>>
    /\ audio_buffer = <<>>
    /\ stream_open = FALSE
    /\ is_listening = FALSE
    /\ is_paused = FALSE
    /\ uipc = "idle"
    /\ ctl = "none"
    /\ audio_chunk = NoFrame
    /\ audio_data = <<>>
    /\ inflight = 0
    /\ cb = "idle"
    /\ cb_frame = NoFrame
    /\ cb_pz = FALSE
    /\ cbCount = 0
    /\ levelEmits = 0
    /\ pausedIds = {}
    /\ starts = 0
    /\ sess_toggles = 0
    /\ tp_hist = <<>>
    /\ stopInFlight = FALSE
    /\ lateCall = FALSE
    /\ lastAdmit = <<>>
    /\ sil = 0
    /\ baseLen = 0
    /\ trigAt = {}
    /\ auto_type = TRUE
    /\ language = "en"
    /\ auto_detect_language = FALSE
    /\ initial_prompt = <<>>
    /\ loader = "loading"
    /\ call_kwargs = <<>>
    /\ segs = <<>>
    /\ log = <<>>
    /\ done = <<>>
    /\ last_text = <<>>
    /\ chunk_calls = 0
    /\ raisedOnce = FALSE
    /\ status = <<>>
    /\ runFailed = FALSE
    /\ cb_lis = FALSE
    /\ lisIds = {}
    /\ lostListening = FALSE
    /\ held = <<>>
    /\ trig_cfg = <<>>
    /\ typeRaisedAt = 0

\* no transcription_kwargs: run() is not in a transcribe call
NoKwargs == <<>>

\* no HTTP response is being handled
NoResponse == <<>>

Init ==
    /\ InitThread
    /\ response = NoResponse
    /\ normalized = NoResponse

----
\* ---- UI thread ----

\* toggle_listening, branch "not self.is_listening": QThread.start()
ToggleListeningStart ==
    /\ uipc = "idle"
    /\ ~is_listening
    /\ starts < MaxStarts
    /\ is_listening' = TRUE
    /\ is_paused' = FALSE
    /\ ctl' = IF ctl = "none" THEN "started" ELSE ctl
    /\ starts' = starts + 1
    /\ sess_toggles' = 0
    /\ stopInFlight' = FALSE
    /\ UNCHANGED ext
    /\ UNCHANGED <<shared, uipc, audio_chunk, audio_data, inflight, cbVars,
                   tp_hist, lateCall, admitHist>>

\* toggle_listening, branch else: stop() sets running and enters self.wait()
ToggleListeningStop ==
    /\ uipc = "idle"
    /\ is_listening
    /\ is_listening' = FALSE
    /\ running' = FALSE
    /\ uipc' = "stop_wait"
    /\ stopInFlight' = (inflight > 0)
    /\ UNCHANGED ext
    /\ UNCHANGED <<paused, model, audio_queue, audio_buffer, stream_open,
                   is_paused, ctlVars, cbVars, uiHist, lateCall, admitHist>>

\* stop() without self.wait()
StopWaitReturn_NoWait ==
    /\ uipc = "stop_wait"
    /\ uipc' = "idle"
    /\ UNCHANGED ext
    /\ UNCHANGED <<shared, is_listening, is_paused, ctlVars, cbVars, uiHist,
                   stopHist, admitHist>>

\* stop(): self.wait() returns once run() has returned
StopWaitReturn ==
    /\ uipc = "stop_wait"
    /\ ctl = "none"
    /\ uipc' = "idle"
    /\ UNCHANGED ext
    /\ UNCHANGED <<shared, is_listening, is_paused, ctlVars, cbVars, uiHist,
                   stopHist, admitHist>>

\* AudioTranscriptionThread.toggle_pause: the flag after the call
TogglePauseFlag(p) == ~p

\* toggle_pause returning the flag it found
TogglePauseReturn_Old(p) == p

\* AudioTranscriptionThread.toggle_pause: the value returned
TogglePauseReturn(p) == TogglePauseFlag(p)

\* a pause that throws away what is buffered
TogglePause_Flush ==
    /\ uipc = "idle"
    /\ is_listening
    /\ Len(tp_hist) < MaxToggles
    /\ paused' = TogglePauseFlag(paused)
    /\ is_paused' = TogglePauseReturn(paused)
    /\ tp_hist' = Append(tp_hist, <<paused, paused', is_paused'>>)
    /\ sess_toggles' = sess_toggles + 1
    /\ held' = IF paused' THEN audio_buffer ELSE held
    /\ audio_buffer' = IF paused' THEN <<>> ELSE audio_buffer
    /\ UNCHANGED <<trig_cfg, typeRaisedAt>>
    /\ UNCHANGED <<cfgVars, loader, resVars, runVars, lossVars, apiVars>>
    /\ UNCHANGED <<running, model, audio_queue, stream_open,
                   is_listening, uipc, ctlVars, cbVars, starts, stopHist,
                   admitHist>>

\* SpeechToTextApp.toggle_pause
TogglePause ==
    /\ uipc = "idle"
    /\ is_listening
    /\ Len(tp_hist) < MaxToggles
    /\ paused' = TogglePauseFlag(paused)
    /\ is_paused' = TogglePauseReturn(paused)
    /\ tp_hist' = Append(tp_hist, <<paused, paused', is_paused'>>)
    /\ sess_toggles' = sess_toggles + 1
    /\ held' = IF paused' THEN audio_buffer ELSE held
    /\ UNCHANGED <<trig_cfg, typeRaisedAt>>
    /\ UNCHANGED <<cfgVars, loader, resVars, runVars, lossVars, apiVars>>
    /\ UNCHANGED <<running, model, audio_queue, audio_buffer, stream_open,
                   is_listening, uipc, ctlVars, cbVars, starts, stopHist,
                   admitHist>>

\* toggle_auto_type -> set_auto_type: the checkbox of the Options group, which stays
\* enabled while listening
ToggleAutoType ==
    /\ uipc = "idle"
    /\ auto_type' = ~auto_type
    /\ UNCHANGED <<language, auto_detect_language, initial_prompt>>
    /\ UNCHANGED extButCfg
    /\ UNCHANGED <<shared, appVars, ctlVars, cbVars, uiHist, stopHist, admitHist>>

\* set_language(language): what it stores
SetLanguage(lang) ==
    IF lang = "auto" THEN [auto_detect_language |-> TRUE, language |-> "None"]
                     ELSE [auto_detect_language |-> FALSE, language |-> lang]

\* the languages a caller of set_language passes
ApiLanguages == {"auto", "en", "fr"}

\* set_language(language) called on the thread object, in any state of run()
SetLanguageCall ==
    /\ \E lang \in ApiLanguages :
         LET set == SetLanguage(lang)
         IN  /\ auto_detect_language' = set.auto_detect_language
             /\ language' = set.language
             /\ <<auto_detect_language', language'>> # <<auto_detect_language, language>>
    /\ UNCHANGED <<auto_type, initial_prompt>>
    /\ UNCHANGED extButCfg
    /\ UNCHANGED <<shared, appVars, ctlVars, cbVars, uiHist, stopHist, admitHist>>

\* a set_initial_prompt that reaches into the request already handed over
SetInitialPrompt_Live ==
    /\ \E prompt \in Prompts \ {initial_prompt} :
         /\ initial_prompt' = prompt
         /\ call_kwargs' = IF ctl = "inflight"
                             THEN [k \in DOMAIN call_kwargs \ {"initial_prompt"}
                                     |-> call_kwargs[k]]
                                  @@ (IF prompt # <<>>
                                        THEN "initial_prompt" :> prompt ELSE <<>>)
                             ELSE call_kwargs
    /\ UNCHANGED <<auto_type, language, auto_detect_language>>
    /\ UNCHANGED <<segs, log, done, last_text, chunk_calls, raisedOnce>>
    /\ UNCHANGED <<loader, runVars, lossVars, apiVars, chunkHist>>
    /\ UNCHANGED <<shared, appVars, ctlVars, cbVars, uiHist, stopHist, admitHist>>

\* set_initial_prompt(prompt) called on the thread object, in any state of run()
SetInitialPrompt ==
    /\ \E prompt \in Prompts \ {initial_prompt} : initial_prompt' = prompt
    /\ UNCHANGED <<auto_type, language, auto_detect_language>>
    /\ UNCHANGED extButCfg
    /\ UNCHANGED <<shared, appVars, ctlVars, cbVars, uiHist, stopHist, admitHist>>

\* apply_language_and_prompt: the button of the Transcription Settings group, which
\* is disabled while listening
ApplyLanguageAndPrompt ==
    /\ uipc = "idle"
    /\ ~is_listening
    /\ \E item \in LanguageItems, prompt \in Prompts :
         LET lang == IF item.data # "None" THEN item.data ELSE item.text
             set == SetLanguage(lang)
         IN  /\ auto_detect_language' = set.auto_detect_language
             /\ language' = set.language
             /\ initial_prompt' = prompt
    /\ UNCHANGED auto_type
    /\ UNCHANGED extButCfg
    /\ UNCHANGED <<shared, appVars, ctlVars, cbVars, uiHist, stopHist, admitHist>>

----
\* ---- model loader thread: load_model of update_model ----

\* self.model = WhisperModel(...); emit "Model loaded successfully!"
LoaderLoaded ==
    /\ loader = "loading"
    /\ model' = "loaded"
    /\ loader' = "loaded"
    /\ UNCHANGED <<cfgVars, resVars, runVars, lossVars, apiVars, chunkHist>>
    /\ UNCHANGED <<running, paused, audio_queue, audio_buffer, stream_open, appVars,
                   ctlVars, cbVars, uiHist, stopHist, admitHist>>

\* WhisperModel(...) raises; emit "Error loading model: ..."
LoaderFailed ==
    /\ loader = "loading"
    /\ loader' = "failed"
    /\ UNCHANGED <<cfgVars, resVars, runVars, lossVars, apiVars, chunkHist>>
    /\ UNCHANGED <<shared, appVars, ctlVars, cbVars, uiHist, stopHist, admitHist>>

----
\* ---- audio thread: callback(indata, frames, time, status) ----

\* the stream invokes callback with the next frame, at most max times
CbDeliver(max) ==
    /\ stream_open
    /\ cb = "idle"
    /\ cbCount < max
    /\ Len(audio_queue) < MaxQueue
    /\ \E l \in Levels : cb_frame' = [id |-> cbCount + 1, lvl |-> l]
    /\ cbCount' = cbCount + 1
    /\ cb_pz' = paused
    /\ cb' = "level"
    /\ cb_lis' = ~paused
    /\ UNCHANGED <<lisIds, lostListening>>
    /\ UNCHANGED extButLoss
    /\ UNCHANGED <<shared, appVars, ctlVars, levelEmits, pausedIds, uiHist,
                   stopHist, admitHist>>

\* callback emitting the level only while not paused
CbEmitLevel_OnlyListening ==
    /\ cb = "level"
    /\ levelEmits' = IF paused THEN levelEmits ELSE levelEmits + 1
    /\ cb_pz' = (cb_pz /\ paused)
    /\ cb' = "check"
    /\ cb_lis' = (cb_lis /\ ~paused)
    /\ UNCHANGED <<lisIds, lostListening>>
    /\ UNCHANGED extButLoss
    /\ UNCHANGED <<shared, appVars, ctlVars, cb_frame, cbCount, pausedIds, uiHist,
                   stopHist, admitHist>>

\* audio_level = np.abs(indata).mean(); self.audio_level_update.emit(audio_level)
CbEmitLevel ==
    /\ cb = "level"
    /\ levelEmits' = levelEmits + 1
    /\ cb_pz' = (cb_pz /\ paused)
    /\ cb' = "check"
    /\ cb_lis' = (cb_lis /\ ~paused)
    /\ UNCHANGED <<lisIds, lostListening>>
    /\ UNCHANGED extButLoss
    /\ UNCHANGED <<shared, appVars, ctlVars, cb_frame, cbCount, pausedIds, uiHist,
                   stopHist, admitHist>>

\* callback testing self.running only
CbAdmits_NoPauseTest == running

\* if not self.paused and self.running
CbAdmits == ~paused /\ running

\* the test of the if statement; the frame is dropped when it fails
CbCheck ==
    /\ cb = "check"
    /\ IF CbAdmits
         THEN /\ cb' = "put"
              /\ cb_pz' = (cb_pz /\ paused)
              /\ cb_lis' = (cb_lis /\ ~paused)
              /\ UNCHANGED <<cb_frame, pausedIds>>
         ELSE /\ cb' = "idle"
              /\ cb_frame' = NoFrame
              /\ cb_pz' = FALSE
              /\ cb_lis' = FALSE
              /\ pausedIds' = IF cb_pz /\ paused THEN pausedIds \cup {cb_frame.id}
                                                ELSE pausedIds
    /\ UNCHANGED <<lisIds, lostListening>>
    /\ UNCHANGED extButLoss
    /\ UNCHANGED <<shared, appVars, ctlVars, cbCount, levelEmits, uiHist, stopHist,
                   admitHist>>

\* self.audio_queue.put(indata.copy())
CbPut ==
    /\ cb = "put"
    /\ audio_queue' = Append(audio_queue, cb_frame)
    /\ pausedIds' = IF cb_pz /\ paused THEN pausedIds \cup {cb_frame.id}
                                      ELSE pausedIds
    /\ cb' = "idle"
    /\ cb_frame' = NoFrame
    /\ cb_pz' = FALSE
    /\ lisIds' = IF cb_lis /\ ~paused THEN lisIds \cup {cb_frame.id} ELSE lisIds
    /\ cb_lis' = FALSE
    /\ UNCHANGED lostListening
    /\ UNCHANGED extButLoss
    /\ UNCHANGED <<running, paused, model, audio_buffer, stream_open, appVars,
                   ctlVars, cbCount, levelEmits, uiHist, stopHist, admitHist>>

----
\* ---- controller thread: run() ----

\* self.running = True
CtlBegin ==
    /\ ctl = "started"
    /\ running' = TRUE
    /\ ctl' = "load"
    /\ status' = <<"Loading model...">>
    /\ runFailed' = FALSE
    /\ raisedOnce' = FALSE
    /\ last_text' = <<>>
    /\ UNCHANGED <<call_kwargs, segs, log, done, chunk_calls>>
    /\ UNCHANGED extButResRun
    /\ UNCHANGED <<paused, model, audio_queue, audio_buffer, stream_open, appVars,
                   audio_chunk, audio_data, inflight, cbVars, uiHist, stopHist,
                   admitHist>>

\* if self.model is None: self.model = WhisperModel(...)
CtlLoadModel ==
    /\ ctl = "load"
    /\ model' = "loaded"
    /\ ctl' = "open"
    /\ status' = status
                 \o (IF model = "none" THEN <<"Creating new model instance...">>
                                        ELSE <<>>)
                 \o <<"Model loaded. Starting audio stream...">>
    /\ UNCHANGED runFailed
    /\ UNCHANGED extButRun
    /\ UNCHANGED <<running, paused, audio_queue, audio_buffer, stream_open, appVars,
                   audio_chunk, audio_data, inflight, cbVars, uiHist, stopHist,
                   admitHist>>

\* WhisperModel(...) raises, the error is reported and run() goes on to the stream
CtlLoadModelFail_Continue ==
    /\ ctl = "load"
    /\ model = "none"
    /\ ctl' = "open"
    /\ status' = status \o <<"Creating new model instance...", "Error">>
    /\ runFailed' = TRUE
    /\ UNCHANGED extButRun
    /\ UNCHANGED <<shared, appVars, audio_chunk, audio_data, inflight, cbVars,
                   uiHist, stopHist, admitHist>>

\* WhisperModel(...) raises: except Exception of the outer try, then finally
CtlLoadModelFail ==
    /\ ctl = "load"
    /\ model = "none"
    /\ ctl' = "finally"
    /\ status' = status \o <<"Creating new model instance...", "Error">>
    /\ runFailed' = TRUE
    /\ UNCHANGED extButRun
    /\ UNCHANGED <<shared, appVars, audio_chunk, audio_data, inflight, cbVars,
                   uiHist, stopHist, admitHist>>

\* self.audio_buffer = []; with sd.InputStream(..., callback=self.callback)
CtlOpenStream ==
    /\ ctl = "open"
    /\ audio_buffer' = <<>>
    /\ stream_open' = TRUE
    /\ ctl' = "announce"
    /\ lastAdmit' = <<>>
    /\ sil' = 0
    /\ baseLen' = 0
    /\ trigAt' = {}
    /\ held' = <<>>
    /\ UNCHANGED <<trig_cfg, typeRaisedAt>>
    /\ UNCHANGED <<cfgVars, loader, resVars, runVars, lossVars, apiVars>>
    /\ UNCHANGED <<running, paused, model, audio_queue, appVars, audio_chunk,
                   audio_data, inflight, cbVars, uiHist, stopHist>>

\* sd.InputStream(...) raises (no input device): outer except, then finally
CtlOpenStreamFail ==
    /\ ctl = "open"
    /\ audio_buffer' = <<>>
    /\ ctl' = "finally"
    /\ lastAdmit' = <<>>
    /\ sil' = 0
    /\ baseLen' = 0
    /\ trigAt' = {}
    /\ status' = Append(status, "Error")
    /\ UNCHANGED runFailed
    /\ held' = <<>>
    /\ UNCHANGED <<trig_cfg, typeRaisedAt>>
    /\ UNCHANGED <<cfgVars, loader, resVars, lossVars, apiVars>>
    /\ UNCHANGED <<running, paused, model, audio_queue, stream_open, appVars,
                   audio_chunk, audio_data, inflight, cbVars, uiHist, stopHist>>

\* self.status_update.emit("Listening... Speak now!")
CtlAnnounce ==
    /\ ctl = "announce"
    /\ ctl' = "loop"
    /\ status' = Append(status, "Listening... Speak now!")
    /\ UNCHANGED runFailed
    /\ UNCHANGED extButRun
    /\ UNCHANGED <<shared, appVars, audio_chunk, audio_data, inflight, cbVars,
                   uiHist, stopHist, admitHist>>

\* while self.running
CtlLoopCheck ==
    /\ ctl = "loop"
    /\ ctl' = IF running THEN "get" ELSE "close"
    /\ UNCHANGED ext
    /\ UNCHANGED <<shared, appVars, audio_chunk, audio_data, inflight, cbVars,
                   uiHist, stopHist, admitHist>>

\* a get that takes the newest frame of the queue
CtlGet_Lifo ==
    /\ ctl = "get"
    /\ IF audio_queue # <<>>
         THEN /\ audio_chunk' = audio_queue[Len(audio_queue)]
              /\ audio_queue' = SubSeq(audio_queue, 1, Len(audio_queue) - 1)
              /\ ctl' = "admit"
         ELSE /\ ctl' = "loop"
              /\ UNCHANGED <<audio_chunk, audio_queue>>
    /\ UNCHANGED ext
    /\ UNCHANGED <<running, paused, model, audio_buffer, stream_open, appVars,
                   audio_data, inflight, cbVars, uiHist, stopHist, admitHist>>

\* audio_chunk = self.audio_queue.get(timeout=0.5): a frame, or queue.Empty and continue
CtlGet ==
    /\ ctl = "get"
    /\ IF audio_queue # <<>>
         THEN /\ audio_chunk' = Head(audio_queue)
              /\ audio_queue' = Tail(audio_queue)
              /\ ctl' = "admit"
         ELSE /\ ctl' = "loop"
              /\ UNCHANGED <<audio_chunk, audio_queue>>
    /\ UNCHANGED ext
    /\ UNCHANGED <<running, paused, model, audio_buffer, stream_open, appVars,
                   audio_data, inflight, cbVars, uiHist, stopHist, admitHist>>

\* the loud-frame test with >= for >
ShouldTrigger_LoudGe(buf, lvl) ==
    Len(buf) >= buffer_max_size \/ lvl >= trigger_level * 3

\* the buffer-full test with > for >=
ShouldTrigger_FullGt(buf, lvl) ==
    Len(buf) > buffer_max_size \/ lvl > trigger_level * 3

\* buffer_full or audio_level > self.trigger_level * 3
ShouldTrigger(buf, lvl) ==
    Len(buf) >= buffer_max_size \/ lvl > trigger_level * 3

\* a trigger that hands the buffer over without clearing it
CtlAdmit_KeepBuffer ==
    /\ ctl = "admit"
    /\ audio_chunk' = NoFrame
    /\ IF paused
         THEN /\ ctl' = "loop"
              /\ lostListening' = (lostListening \/ audio_chunk.id \in lisIds)
              /\ UNCHANGED <<audio_buffer, audio_data, admitHist, chunk_calls,
                             trig_cfg>>
         ELSE LET buf == Append(audio_buffer, audio_chunk.id)
                  lvl == audio_chunk.lvl
                  trig == ShouldTrigger(buf, lvl)
                  quiet == lvl < trigger_level
              IN  /\ IF trig
                       THEN /\ audio_data' = buf
                            /\ audio_buffer' = buf
                            /\ chunk_calls' = 0
                            /\ trig_cfg' =
                                 <<language, auto_detect_language, initial_prompt>>
                            /\ ctl' = "call"
                       ELSE /\ audio_buffer' = buf
                            /\ ctl' = "loop"
                            /\ UNCHANGED <<audio_data, chunk_calls, trig_cfg>>
                  /\ UNCHANGED lostListening
                  /\ lastAdmit' = <<Len(buf), lvl, ctl' = "call">>
                  /\ sil' = IF quiet THEN sil + 1 ELSE 0
                  /\ baseLen' = IF ~quiet THEN 0
                                ELSE IF sil = 0 THEN Len(audio_buffer) ELSE baseLen
                  /\ trigAt' = IF ~quiet THEN {}
                               ELSE (IF sil = 0 THEN {} ELSE trigAt)
                                    \cup (IF ctl' = "call" THEN {sil + 1} ELSE {})
    /\ lisIds' = lisIds \ {audio_chunk.id}
    /\ UNCHANGED <<call_kwargs, segs, log, done, last_text, raisedOnce>>
    /\ UNCHANGED <<cfgVars, loader, runVars, cb_lis, apiVars, held, typeRaisedAt>>
    /\ UNCHANGED <<running, paused, model, audio_queue, stream_open, appVars,
                   inflight, cbVars, uiHist, stopHist>>

\* if not self.paused: append, decide, combine the buffered chunks, reset the buffer
CtlAdmit ==
    /\ ctl = "admit"
    /\ audio_chunk' = NoFrame
    /\ IF paused
         THEN /\ ctl' = "loop"
              /\ lostListening' = (lostListening \/ audio_chunk.id \in lisIds)
              /\ UNCHANGED <<audio_buffer, audio_data, admitHist, chunk_calls,
                             trig_cfg>>
         ELSE LET buf == Append(audio_buffer, audio_chunk.id)
                  lvl == audio_chunk.lvl
                  trig == ShouldTrigger(buf, lvl)
                  quiet == lvl < trigger_level
              IN  /\ IF trig
                       THEN /\ audio_data' = buf
                            /\ audio_buffer' = <<>>
                            /\ chunk_calls' = 0
                            /\ trig_cfg' =
                                 <<language, auto_detect_language, initial_prompt>>
                            /\ ctl' = "call"
                       ELSE /\ audio_buffer' = buf
                            /\ ctl' = "loop"
                            /\ UNCHANGED <<audio_data, chunk_calls, trig_cfg>>
                  /\ UNCHANGED lostListening
                  /\ lastAdmit' = <<Len(buf), lvl, ctl' = "call">>
                  /\ sil' = IF quiet THEN sil + 1 ELSE 0
                  /\ baseLen' = IF ~quiet THEN 0
                                ELSE IF sil = 0 THEN Len(audio_buffer) ELSE baseLen
                  /\ trigAt' = IF ~quiet THEN {}
                               ELSE (IF sil = 0 THEN {} ELSE trigAt)
                                    \cup (IF ctl' = "call" THEN {sil + 1} ELSE {})
    /\ lisIds' = lisIds \ {audio_chunk.id}
    /\ UNCHANGED <<call_kwargs, segs, log, done, last_text, raisedOnce>>
    /\ UNCHANGED <<cfgVars, loader, runVars, cb_lis, apiVars, held, typeRaisedAt>>
    /\ UNCHANGED <<running, paused, model, audio_queue, stream_open, appVars,
                   inflight, cbVars, uiHist, stopHist>>

\* transcription_kwargs with the last emitted text added to the prompt
TranscriptionKwargs_WithContext ==
    [beam_size |-> 5, vad_filter |-> TRUE,
     vad_parameters |-> [min_silence_duration_ms |-> 500]]
    @@ (IF ~auto_detect_language /\ language # "None"
          THEN "language" :> language ELSE <<>>)
    @@ (IF initial_prompt \o last_text # <<>>
          THEN "initial_prompt" :> (initial_prompt \o last_text) ELSE <<>>)

\* transcription_kwargs as built before the call: beam_size, vad_filter,
\* vad_parameters, language unless auto-detecting, initial_prompt unless empty
TranscriptionKwargs ==
    [beam_size |-> 5, vad_filter |-> TRUE,
     vad_parameters |-> [min_silence_duration_ms |-> 500]]
    @@ (IF ~auto_detect_language /\ language # "None"
          THEN "language" :> language ELSE <<>>)
    @@ (IF initial_prompt # <<>> THEN "initial_prompt" :> initial_prompt ELSE <<>>)

\* transcribe handed to another thread, the loop going on at once
CtlCallStart_Async ==
    /\ ctl = "call"
    /\ inflight' = inflight + 1
    /\ ctl' = "loop"
    /\ lateCall' = (lateCall \/ stopInFlight)
    /\ call_kwargs' = TranscriptionKwargs
    /\ chunk_calls' = chunk_calls + 1
    /\ UNCHANGED <<segs, log, done, last_text, raisedOnce>>
    /\ held' = <<>>
    /\ UNCHANGED <<trig_cfg, typeRaisedAt>>
    /\ UNCHANGED <<cfgVars, loader, runVars, lossVars, apiVars>>
    /\ UNCHANGED <<shared, appVars, audio_chunk, audio_data, cbVars, uiHist,
                   stopInFlight, admitHist>>

\* segments, info = self.model.transcribe(audio_data, **transcription_kwargs): the call
CtlCallStart ==
    /\ ctl = "call"
    /\ inflight' = inflight + 1
    /\ ctl' = "inflight"
    /\ lateCall' = (lateCall \/ stopInFlight)
    /\ call_kwargs' = TranscriptionKwargs
    /\ chunk_calls' = chunk_calls + 1
    /\ UNCHANGED <<segs, log, done, last_text, raisedOnce>>
    /\ held' = <<>>
    /\ UNCHANGED <<trig_cfg, typeRaisedAt>>
    /\ UNCHANGED <<cfgVars, loader, runVars, lossVars, apiVars>>
    /\ UNCHANGED <<shared, appVars, audio_chunk, audio_data, cbVars, uiHist,
                   stopInFlight, admitHist>>

\* model.transcribe returns segments and info
BackendReturn(results) ==
    /\ ctl = "inflight"
    /\ inflight > 0
    /\ inflight' = inflight - 1
    /\ \E r \in results : segs' = r
    /\ ctl' = "segments"
    /\ UNCHANGED <<call_kwargs, log, done, last_text, chunk_calls, raisedOnce>>
    /\ UNCHANGED extButRes
    /\ UNCHANGED <<shared, appVars, audio_chunk, audio_data, cbVars, uiHist,
                   stopHist, admitHist>>

\* model.transcribe raises and the exception leaves the while loop
BackendRaise_Fatal ==
    /\ ctl = "inflight"
    /\ inflight > 0
    /\ inflight' = inflight - 1
    /\ raisedOnce' = TRUE
    /\ ctl' = "close"
    /\ UNCHANGED <<call_kwargs, segs, log, done, last_text, chunk_calls>>
    /\ UNCHANGED extButRes
    /\ UNCHANGED <<shared, appVars, audio_chunk, audio_data, cbVars, uiHist,
                   stopHist, admitHist>>

\* model.transcribe raises and the call is made once more with the same audio_data
BackendRaise_Retry ==
    /\ ctl = "inflight"
    /\ inflight > 0
    /\ inflight' = inflight - 1
    /\ raisedOnce' = TRUE
    /\ ctl' = IF chunk_calls < 2 THEN "call" ELSE "except"
    /\ UNCHANGED <<call_kwargs, segs, log, done, last_text, chunk_calls>>
    /\ UNCHANGED extButRes
    /\ UNCHANGED <<shared, appVars, audio_chunk, audio_data, cbVars, uiHist,
                   stopHist, admitHist>>

\* model.transcribe raises: control passes to except Exception of the inner try
BackendRaise ==
    /\ ctl = "inflight"
    /\ inflight > 0
    /\ inflight' = inflight - 1
    /\ raisedOnce' = TRUE
    /\ ctl' = "except"
    /\ UNCHANGED <<call_kwargs, segs, log, done, last_text, chunk_calls>>
    /\ UNCHANGED extButRes
    /\ UNCHANGED <<shared, appVars, audio_chunk, audio_data, cbVars, uiHist,
                   stopHist, admitHist>>

\* a handler that puts the frames of the failed chunk back into the buffer
CtlExcept_Requeue ==
    /\ ctl = "except"
    /\ audio_buffer' = audio_data
    /\ audio_data' = <<>>
    /\ call_kwargs' = NoKwargs
    /\ ctl' = "loop"
    /\ chunk_calls' = 0
    /\ UNCHANGED <<segs, log, done, last_text, raisedOnce>>
    /\ UNCHANGED held
    /\ trig_cfg' = <<>>
    /\ typeRaisedAt' = 0
    /\ UNCHANGED <<cfgVars, loader, runVars, lossVars, apiVars>>
    /\ UNCHANGED <<running, paused, model, audio_queue, stream_open, appVars,
                   audio_chunk, inflight, cbVars, uiHist, stopHist, admitHist>>

\* except Exception: print the error and the traceback; the while loop goes on
CtlExcept ==
    /\ ctl = "except"
    /\ audio_data' = <<>>
    /\ call_kwargs' = NoKwargs
    /\ ctl' = "loop"
    /\ chunk_calls' = 0
    /\ UNCHANGED <<segs, log, done, last_text, raisedOnce>>
    /\ UNCHANGED held
    /\ trig_cfg' = <<>>
    /\ typeRaisedAt' = 0
    /\ UNCHANGED <<cfgVars, loader, runVars, lossVars, apiVars>>
    /\ UNCHANGED <<shared, appVars, audio_chunk, inflight, cbVars, uiHist,
                   stopHist, admitHist>>

\* The filter of known filler phrases that the specification describes: a text is
\* dropped when it is one of the phrases, or has at most 3 words of which one
\* contains "thank", "thanks", "please" or "subscribe" in any case.
FillerPhrases ==
    {<<"Thank", " ", "you.">>, <<"Thanks", " ", "for", " ", "watching.">>,
     <<"Please", " ", "subscribe.">>}

\* the words of the vocabulary that contain one of the four substrings
HasTrigger(tok) ==
    tok \in {"Thank", "thank", "Thanks", "thanks", "Please", "please", "subscribe.",
             "subscribe"}

\* the number of words of a text
Words(t) == Cardinality({i \in DOMAIN t : ~IsSpace(t[i])})

IsHallucination(t) ==
    \/ t \in FillerPhrases
    \/ Words(t) <= 3 /\ \E i \in DOMAIN t : HasTrigger(t[i])

FilterHallucination(t) == IF IsHallucination(t) THEN <<>> ELSE t

\* the loop over the segments with that filter applied to the trimmed text
CtlSegments_Filtered ==
    /\ ctl = "segments"
    /\ segs # <<>>
    /\ LET text == FilterHallucination(Strip(Head(segs)))
       IN  IF text # <<>>
             THEN /\ log' = Append(log, [ev |-> "transcript", text |-> text])
                  /\ last_text' = text
                  /\ ctl' = "autotype"
                  /\ UNCHANGED <<segs, done>>
             ELSE /\ segs' = Tail(segs)
                  /\ done' = Append(done, [seg |-> Head(segs), auto_type |-> FALSE])
                  /\ UNCHANGED <<log, last_text, ctl>>
    /\ UNCHANGED <<call_kwargs, chunk_calls, raisedOnce>>
    /\ UNCHANGED extButRes
    /\ UNCHANGED <<shared, appVars, audio_chunk, audio_data, inflight, cbVars,
                   uiHist, stopHist, admitHist>>

\* for segment in segments: text = segment.text.strip(); if text: emit
CtlSegments ==
    /\ ctl = "segments"
    /\ segs # <<>>
    /\ LET text == Strip(Head(segs))
       IN  IF text # <<>>
             THEN /\ log' = Append(log, [ev |-> "transcript", text |-> text])
                  /\ last_text' = text
                  /\ ctl' = "autotype"
                  /\ UNCHANGED <<segs, done>>
             ELSE /\ segs' = Tail(segs)
                  /\ done' = Append(done, [seg |-> Head(segs), auto_type |-> FALSE])
                  /\ UNCHANGED <<log, last_text, ctl>>
    /\ UNCHANGED <<call_kwargs, chunk_calls, raisedOnce>>
    /\ UNCHANGED extButRes
    /\ UNCHANGED <<shared, appVars, audio_chunk, audio_data, inflight, cbVars,
                   uiHist, stopHist, admitHist>>

\* typing whether or not auto_type is set, and without the space
CtlAutoType_AlwaysBare ==
    /\ ctl = "autotype"
    /\ log' = Append(log, [ev |-> "type", text |-> Strip(Head(segs))])
    /\ done' = Append(done, [seg |-> Head(segs), auto_type |-> auto_type])
    /\ segs' = Tail(segs)
    /\ ctl' = "segments"
    /\ UNCHANGED <<call_kwargs, last_text, chunk_calls, raisedOnce>>
    /\ UNCHANGED extButRes
    /\ UNCHANGED <<shared, appVars, audio_chunk, audio_data, inflight, cbVars,
                   uiHist, stopHist, admitHist>>

\* if self.auto_type: self.keyboard.type(text + " "), an error of which is printed
CtlAutoType ==
    /\ ctl = "autotype"
    /\ LET text == Strip(Head(segs))
       IN  log' = IF auto_type
                    THEN Append(log, [ev |-> "type", text |-> Append(text, " ")])
                    ELSE log
    /\ done' = Append(done, [seg |-> Head(segs), auto_type |-> auto_type])
    /\ segs' = Tail(segs)
    /\ ctl' = "segments"
    /\ UNCHANGED <<call_kwargs, last_text, chunk_calls, raisedOnce>>
    /\ UNCHANGED extButRes
    /\ UNCHANGED <<shared, appVars, audio_chunk, audio_data, inflight, cbVars,
                   uiHist, stopHist, admitHist>>

\* a failure of keyboard.type that ends the handling of the chunk
CtlAutoTypeRaise_Fatal ==
    /\ ctl = "autotype"
    /\ auto_type
    /\ log' = Append(log, [ev |-> "type", text |-> Append(Strip(Head(segs)), " ")])
    /\ typeRaisedAt' = IF typeRaisedAt = 0 THEN Len(log') ELSE typeRaisedAt
    /\ done' = Append(done, [seg |-> Head(segs), auto_type |-> auto_type])
    /\ segs' = <<>>
    /\ ctl' = "except"
    /\ UNCHANGED <<call_kwargs, last_text, chunk_calls, raisedOnce>>
    /\ UNCHANGED <<held, trig_cfg>>
    /\ UNCHANGED <<cfgVars, loader, runVars, lossVars, apiVars>>
    /\ UNCHANGED <<shared, appVars, audio_chunk, audio_data, inflight, cbVars,
                   uiHist, stopHist, admitHist>>

\* self.keyboard.type(text + " ") raises: except Exception prints "Error typing text"
\* and the for loop goes on to the next segment
CtlAutoTypeRaise ==
    /\ ctl = "autotype"
    /\ auto_type
    /\ log' = Append(log, [ev |-> "type", text |-> Append(Strip(Head(segs)), " ")])
    /\ typeRaisedAt' = IF typeRaisedAt = 0 THEN Len(log') ELSE typeRaisedAt
    /\ done' = Append(done, [seg |-> Head(segs), auto_type |-> auto_type])
    /\ segs' = Tail(segs)
    /\ ctl' = "segments"
    /\ UNCHANGED <<call_kwargs, last_text, chunk_calls, raisedOnce>>
    /\ UNCHANGED <<held, trig_cfg>>
    /\ UNCHANGED <<cfgVars, loader, runVars, lossVars, apiVars>>
    /\ UNCHANGED <<shared, appVars, audio_chunk, audio_data, inflight, cbVars,
                   uiHist, stopHist, admitHist>>

\* the segments are exhausted: the body of the while loop ends
CtlSegmentsEnd ==
    /\ ctl = "segments"
    /\ segs = <<>>
    /\ audio_data' = <<>>
    /\ call_kwargs' = NoKwargs
    /\ log' = <<>>
    /\ done' = <<>>
    /\ ctl' = "loop"
    /\ chunk_calls' = 0
    /\ UNCHANGED <<segs, last_text, raisedOnce>>
    /\ UNCHANGED held
    /\ trig_cfg' = <<>>
    /\ typeRaisedAt' = 0
    /\ UNCHANGED <<cfgVars, loader, runVars, lossVars, apiVars>>
    /\ UNCHANGED <<shared, appVars, audio_chunk, inflight, cbVars, uiHist,
                   stopHist, admitHist>>

\* leaving the with block without closing the stream
CtlClose_KeepOpen ==
    /\ ctl = "close"
    /\ cb = "idle"
    /\ ctl' = "finally"
    /\ UNCHANGED ext
    /\ UNCHANGED <<running, paused, model, audio_queue, audio_buffer, stream_open,
                   appVars, audio_chunk, audio_data, inflight, cbVars, uiHist,
                   stopHist, admitHist>>

\* leaving the with block: the stream is stopped and closed, after a running callback
CtlClose ==
    /\ ctl = "close"
    /\ cb = "idle"
    /\ stream_open' = FALSE
    /\ ctl' = "finally"
    /\ UNCHANGED ext
    /\ UNCHANGED <<running, paused, model, audio_queue, audio_buffer, appVars,
                   audio_chunk, audio_data, inflight, cbVars, uiHist, stopHist,
                   admitHist>>

\* a finally clause that emits the status but leaves self.running as it is
CtlFinally_KeepRunning ==
    /\ ctl = "finally"
    /\ ctl' = "none"
    /\ status' = Append(status, "Transcription stopped")
    /\ UNCHANGED runFailed
    /\ UNCHANGED extButRun
    /\ UNCHANGED <<running, paused, model, audio_queue, audio_buffer, stream_open,
                   appVars, audio_chunk, audio_data, inflight, cbVars, uiHist,
                   stopHist, admitHist>>

\* finally: emit "Transcription stopped"; self.running = False; run() returns
CtlFinally ==
    /\ ctl = "finally"
    /\ running' = FALSE
    /\ ctl' = "none"
    /\ status' = Append(status, "Transcription stopped")
    /\ UNCHANGED runFailed
    /\ UNCHANGED extButRun
    /\ UNCHANGED <<paused, model, audio_queue, audio_buffer, stream_open, appVars,
                   audio_chunk, audio_data, inflight, cbVars, uiHist, stopHist,
                   admitHist>>

----
UI == ToggleListeningStart \/ ToggleListeningStop \/ StopWaitReturn \/ TogglePause

\* the settings the user can change
Settings == ToggleAutoType \/ ApplyLanguageAndPrompt

Loader == LoaderLoaded \/ LoaderFailed

\* the producer of Spec
CbEnter == CbDeliver(MaxFrames)

\* the producer of AppSpec: a shorter stream
CbEnterApp == CbDeliver(MaxAppFrames)

\* the producer of AdmitSpec: a longer stream
CbEnterRun == CbDeliver(MaxRun)

\* the producer of BufSpec: a stream that fills the buffer once
CbEnterBuf == CbDeliver(MaxBuf)

Callback == CbEnter \/ CbEmitLevel \/ CbCheck \/ CbPut

\* the steps of a callback that has been entered
CallbackBody == CbEmitLevel \/ CbCheck \/ CbPut

Controller ==
    \/ CtlBegin \/ CtlLoadModel \/ CtlLoadModelFail \/ CtlOpenStream
    \/ CtlOpenStreamFail \/ CtlAnnounce \/ CtlLoopCheck \/ CtlGet \/ CtlAdmit
    \/ CtlCallStart \/ CtlExcept \/ CtlSegments \/ CtlAutoType \/ CtlSegmentsEnd
    \/ CtlClose \/ CtlFinally

\* the results of Spec
BackendReturnSpec == BackendReturn(SpecResults)

\* the results of AdmitSpec
BackendReturnAdmit == BackendReturn(AdmitResults)

\* the results of AppSpec
BackendReturnApp == BackendReturn(AppResults)

Backend == BackendReturnSpec \/ BackendRaise

Next == UI \/ Callback \/ Controller \/ Backend

Spec == Init /\ [][Next]_vars

\* Every started thread keeps running, a callback that was entered runs to its end, the
\* backend returns or raises, and wait() returns once run() has returned.  The user and
\* the arrival of audio are not constrained.
FairSpec ==
    /\ Spec
    /\ WF_vars(Controller)
    /\ WF_vars(CallbackBody)
    /\ WF_vars(Backend)
    /\ WF_vars(StopWaitReturn)

\* The controller under a user who starts listening and pauses but never stops, fed by
\* a longer stream: the behaviours in which the admission rule sees long runs of frames.
NextAdmit ==
    \/ ToggleListeningStart \/ TogglePause
    \/ CbEnterRun \/ CbEmitLevel \/ CbCheck \/ CbPut
    \/ CtlBegin \/ CtlLoadModel \/ CtlLoadModelFail \/ CtlOpenStream
    \/ CtlOpenStreamFail \/ CtlAnnounce \/ CtlLoopCheck \/ CtlGet \/ CtlAdmit
    \/ CtlCallStart \/ CtlSegments \/ CtlSegmentsEnd \/ CtlFinally
    \/ BackendReturnAdmit

AdmitSpec == Init /\ [][NextAdmit]_vars

\* The controller under a user who starts listening and pauses but never stops, with a
\* backend that can fail, on a stream long enough to fill the buffer after a failure.
NextBuf ==
    \/ ToggleListeningStart \/ TogglePause
    \/ CbEnterBuf \/ CallbackBody
    \/ CtlBegin \/ CtlLoadModel \/ CtlLoadModelFail \/ CtlOpenStream
    \/ CtlOpenStreamFail \/ CtlAnnounce \/ CtlLoopCheck \/ CtlGet \/ CtlAdmit
    \/ CtlCallStart \/ CtlExcept \/ CtlSegments \/ CtlSegmentsEnd \/ CtlFinally
    \/ BackendReturnAdmit \/ BackendRaise

BufSpec == Init /\ [][NextBuf]_vars

\* The application under a user who starts and stops listening and changes the
\* settings but never pauses, on a short stream: the model loader runs, the model
\* returns every kind of segment, and typing a segment may fail.
NextApp ==
    \/ ToggleListeningStart \/ ToggleListeningStop \/ StopWaitReturn
    \/ Settings \/ Loader
    \/ CbEnterApp \/ CallbackBody
    \/ Controller
    \/ CtlAutoTypeRaise
    \/ BackendReturnApp \/ BackendRaise

AppSpec == Init /\ [][NextApp]_vars

\* The thread object used through its methods: a caller that starts a run and calls
\* set_language and set_initial_prompt at any moment, also while run() is between the
\* trigger and the call or inside the call, on a short stream.
NextApi ==
    \/ ToggleListeningStart
    \/ SetLanguageCall \/ SetInitialPrompt
    \/ CbEnterApp \/ CallbackBody
    \/ CtlBegin \/ CtlLoadModel \/ CtlLoadModelFail \/ CtlOpenStream
    \/ CtlOpenStreamFail \/ CtlAnnounce \/ CtlLoopCheck \/ CtlGet \/ CtlAdmit
    \/ CtlCallStart \/ CtlSegments \/ CtlSegmentsEnd \/ CtlFinally
    \/ BackendReturnAdmit

ApiSpec == Init /\ [][NextApi]_vars

----
\* ---- HuggingFaceWhisperModel.transcribe: the response of the inference API ----
\* A JSON object is a function on the keys it has; times are whole seconds and a
\* probability is a percentage.

\* the objects with or without key k, its value from vals
Opt(k, vals) == {<<>>} \cup {k :> v : v \in vals}

\* the objects of a segmented response
Items ==
    {a @@ b @@ c @@ d :
        a \in Opt("text", {Hi, ThankYou}), b \in Opt("start", {0, 3}),
        c \in Opt("end", {1}), d \in Opt("language", {"fr"})}

\* the sequences of at most n items
RECURSIVE ItemLists(_)
ItemLists(n) ==
    IF n = 0 THEN {<<>>}
    ELSE ItemLists(n - 1)
         \cup {Append(l, i) : l \in {x \in ItemLists(n - 1) : Len(x) = n - 1},
                              i \in Items}

\* what response.json() can be: an object, a list of objects, something else, or a
\* body that is not JSON; "raised" stands for a requests.post that raised instead of
\* returning a response
Bodies ==
    {[kind |-> "dict", val |-> a @@ d] :
        a \in Opt("text", {Hi, ThankYou}), d \in Opt("language", {"fr"})}
    \cup {[kind |-> "list", val |-> l] : l \in ItemLists(MaxItems)}
    \cup {[kind |-> "other", val |-> <<>>], [kind |-> "invalid", val |-> <<>>]}

Responses ==
    {[status_code |-> 200, body |-> b] : b \in Bodies}
    \cup {[status_code |-> 503, body |-> [kind |-> "other", val |-> <<>>]]}
    \cup {[status_code |-> 0, body |-> [kind |-> "raised", val |-> <<>>]]}

\* dict.get(k, default)
Get(obj, k, default) == IF k \in DOMAIN obj THEN obj[k] ELSE default

\* a failure reported as a segment that carries the error message
ErrorResult_Message ==
    [segments |-> <<[text |-> <<"Error">>, start |-> 0, end |-> 0]>>,
     language |-> "en", language_probability |-> 0]

\* return [], WhisperInfo("en", 0.0): a status other than 200, or any exception
ErrorResult == [segments |-> <<>>, language |-> "en", language_probability |-> 0]

\* a missing start taken as 1
ItemSegment_StartOne(item) ==
    [text |-> item["text"], start |-> Get(item, "start", 1),
     end |-> Get(item, "end", 0)]

\* WhisperSegment(item["text"], item.get("start", 0.0), item.get("end", 0.0))
ItemSegment(item) ==
    [text |-> item["text"], start |-> Get(item, "start", 0),
     end |-> Get(item, "end", 0)]

\* str(result), the text of the segment made of a response of another shape
Repr(body) == <<"str(result)">>

\* transcribe, from the response on: segments and info
Normalize(resp) ==
    LET body == resp.body
    IN  IF body.kind = "raised" THEN ErrorResult
        ELSE IF resp.status_code # 200 THEN ErrorResult
        ELSE IF body.kind = "invalid" THEN ErrorResult
        ELSE IF body.kind = "dict" /\ "text" \in DOMAIN body.val
          THEN [segments |-> <<[text |-> body.val["text"], start |-> 0, end |-> 0]>>,
                language |-> Get(body.val, "language", "en"),
                language_probability |-> 100]
        ELSE IF /\ body.kind = "list"
                /\ Len(body.val) > 0
                /\ "text" \in DOMAIN body.val[1]
          THEN IF \E i \in DOMAIN body.val : "text" \notin DOMAIN body.val[i]
                 THEN ErrorResult
                 ELSE [segments |-> [i \in DOMAIN body.val |-> ItemSegment(body.val[i])],
                       language |-> Get(body.val[1], "language", "en"),
                       language_probability |-> 100]
        ELSE [segments |-> <<[text |-> Repr(body), start |-> 0, end |-> 0]>>,
              language |-> "en", language_probability |-> 0]

\* a response arrives for a transcribe call
InitNorm ==
    /\ InitThread
    /\ response \in Responses
    /\ normalized = NoResponse

\* transcribe returns what it made of the response
HfTranscribe ==
    /\ DOMAIN response # {}
    /\ DOMAIN normalized = {}
    /\ normalized' = Normalize(response)
    /\ UNCHANGED response
    /\ UNCHANGED <<cfgVars, loader, resVars, runVars, lossVars, chunkHist>>
    /\ UNCHANGED <<shared, appVars, ctlVars, cbVars, uiHist, stopHist, admitHist>>

NextNorm == HfTranscribe

NormSpec == InitNorm /\ [][NextNorm]_vars

----
\* ---- the claims ----

\* C1: at most one backend transcribe call is in flight at any time, whatever the
\* audio callback, pause/resume/stop and a slow backend do.
C1_AtMostOneInFlight == inflight <= 1

\* a call is in flight while the producer has queued further frames
C1_Witness == inflight = 1 /\ Len(audio_queue) = MaxQueue

\* C2: when stop() has returned no transcribe call is in flight and the controller
\* thread has ended, so none can start; and after a stop() called while a call was in
\* flight no further call starts (one backend invocation in the 5-frame scenario).
C2_StopQuiesces ==
    /\ (uipc = "idle" /\ ~is_listening) => (inflight = 0 /\ ctl = "none")
    /\ ~lateCall

\* stop() was called with a call in flight and has returned
C2_Witness == stopInFlight /\ uipc = "idle" /\ ~is_listening

\* C3: stop() always terminates: once stop() has been called, at any moment after
\* start(), it eventually returns.
C3_StopTerminates == (uipc = "stop_wait") ~> (uipc = "idle")

\* C4: an appended frame triggers a chunk exactly when it brings the buffer to
\* buffer_max_size or its level is strictly above 3 x trigger_level; the buffer never
\* grows beyond buffer_max_size.
C4_TriggerRule ==
    lastAdmit # <<>> =>
        /\ lastAdmit[1] <= buffer_max_size
        /\ lastAdmit[3] <=> (lastAdmit[1] = buffer_max_size
                             \/ lastAdmit[2] > 3 * trigger_level)

\* the fifth of five frames at level 0.005 has triggered
C4_Witness == lastAdmit = <<5, 5, TRUE>> /\ sil = 5 /\ trigAt = {5}

\* C5 as stated: a buffer of 2 frames followed by 5 consecutive sub-threshold frames
\* triggers on the 5th silent frame.
C5_FlushOnFifthSilent == (baseLen = 2 /\ sil >= 5) => 5 \in trigAt

\* C5 as amended: a sub-threshold frame triggers a chunk exactly when it brings the
\* buffer to buffer_max_size; there is no silence-run rule.  The k-th frame of a run of
\* silent frames that began on a buffer of baseLen frames triggers iff baseLen + k is a
\* multiple of buffer_max_size.
C5_SilentTriggersOnFullOnly ==
    \A k \in 1..sil : (k \in trigAt) <=> ((baseLen + k) % buffer_max_size = 0)

\* 2 frames buffered, then 5 silent frames: the 3rd triggered, the 4th and 5th did not
C5_Witness == baseLen = 2 /\ sil = 5 /\ trigAt = {3}

C7_NoCallWhilePaused == [][(inflight' > inflight) => ~paused]_vars

\* C8: a start() leaves the controller not paused and with no buffered frames: when
\* run() begins to listen and toggle_pause has not been called since the start, paused
\* is false and the buffer is empty.
C8_StartListens ==
    (ctl = "announce" /\ sess_toggles = 0) => (~paused /\ audio_buffer = <<>>)

\* C9: one audio level emission per callback invocation, paused or not, made before
\* the frame is or is not enqueued.
C9_LevelEveryFrame ==
    /\ levelEmits = IF cb = "level" THEN cbCount - 1 ELSE cbCount
    /\ \A i \in 1..Len(audio_queue) : audio_queue[i].id <= levelEmits

\* the level of a frame delivered while paused has been emitted, the frame is dropped
C9_Witness == paused /\ cb = "check" /\ cb_pz /\ levelEmits = cbCount

\* C10: every toggle_pause flips the flag and returns the flag after the flip; two
\* consecutive calls restore the flag and return complementary values.
C10_ToggleReturnsNew ==
    /\ \A i \in 1..Len(tp_hist) :
          /\ tp_hist[i][2] = ~tp_hist[i][1]
          /\ tp_hist[i][3] = tp_hist[i][2]
    /\ \A i \in 1..(Len(tp_hist) - 1) :
          /\ tp_hist[i + 1][2] = tp_hist[i][1]
          /\ tp_hist[i + 1][3] = ~tp_hist[i][3]

\* two calls have been made
C10_Witness == Len(tp_hist) >= 2 /\ paused = tp_hist[1][1]

----
\* ---- transcription results ----

\* the events of log
Events == {log[j] : j \in DOMAIN log}

\* the segments of the chunk whose if text: test has been made
Tested ==
    [i \in 1..(Len(done) + (IF ctl = "autotype" THEN 1 ELSE 0)) |->
        IF i <= Len(done) THEN done[i].seg ELSE Head(segs)]

PromptOf(kwargs) ==
    IF "initial_prompt" \in DOMAIN kwargs THEN kwargs["initial_prompt"] ELSE <<>>

\* t occurs in p as a run of consecutive tokens
Contains(p, t) == \E i \in 0..(Len(p) - Len(t)) : SubSeq(p, i + 1, i + Len(t)) = t

InLoop ==
    ctl \in {"loop", "get", "admit", "call", "inflight", "except", "segments",
             "autotype"}

\* C14: a transcribe call that raises does not end the loop. In the handler the
\* stream is open, the frames of the failed chunk are not in the buffer and no
\* transcript was emitted for the chunk; after a failure the loop keeps the stream
\* open for as long as it runs; and the loop is left only when stop() has been called.
C14_FailureKeepsLoop ==
    /\ ctl = "except" =>
          /\ stream_open
          /\ Ids(audio_data) \cap Ids(audio_buffer) = {}
          /\ log = <<>>
    /\ (raisedOnce /\ InLoop) => stream_open
    /\ ctl = "close" => (uipc = "stop_wait" /\ ~running)

\* a call raised earlier in the run; frames delivered since were buffered and their
\* chunk is with the backend
C14_Witness ==
    /\ raisedOnce
    /\ ctl = "inflight"
    /\ inflight = 1
    /\ audio_data # <<>>

\* the events C15 asks of one iterated segment, given the auto_type it read
ExpectedOf(d) ==
    LET text == Strip(d.seg)
    IN  IF text = <<>> THEN <<>>
        ELSE <<[ev |-> "transcript", text |-> text]>>
             \o (IF d.auto_type THEN <<[ev |-> "type", text |-> text \o <<" ">>]>>
                                ELSE <<>>)

\* and of a sequence of iterated segments, in their order
RECURSIVE Expected(_)
Expected(d) == IF d = <<>> THEN <<>> ELSE ExpectedOf(Head(d)) \o Expected(Tail(d))

\* C15: the events of a chunk are, segment by segment in the order returned: nothing
\* for a segment that is empty after trimming; otherwise the transcript event with
\* the trimmed text and then, if auto_type is set, the typing of that text and one
\* space, and nothing typed if it is not set.
C15_SegmentEffects ==
    log = Expected(done)
          \o (IF ctl = "autotype"
                THEN <<[ev |-> "transcript", text |-> Strip(Head(segs))]>>
                ELSE <<>>)

\* three segments iterated: one typed, one blank, one emitted with auto_type off
C15_Witness ==
    /\ done = <<[seg |-> ThankYou, auto_type |-> TRUE],
                [seg |-> Blank, auto_type |-> FALSE],
                [seg |-> Hi, auto_type |-> FALSE]>>
    /\ Len(log) = 3
    /\ log[2] = [ev |-> "type", text |-> <<"Thank", " ", "you.", " ">>]
    /\ log[3] = [ev |-> "transcript", text |-> <<"hi">>]

\* the response is an object with a text
WholeUtterance ==
    /\ response.status_code = 200
    /\ response.body.kind = "dict"
    /\ "text" \in DOMAIN response.body.val

\* the response is a list of objects that all have a text
Segmented ==
    /\ response.status_code = 200
    /\ response.body.kind = "list"
    /\ Len(response.body.val) > 0
    /\ \A i \in DOMAIN response.body.val : "text" \in DOMAIN response.body.val[i]

\* the two example responses: {"text": "hi"} and [{"text": "hi", "start": 0, "end": 1}]
HiWhole == WholeUtterance /\ response.body.val = ("text" :> Hi)

HiSegmented ==
    /\ Segmented
    /\ response.body.val = <<("text" :> Hi) @@ ("start" :> 0) @@ ("end" :> 1)>>

\* C16: both shapes of response become a list of segments with the same texts in the
\* same order: one segment for {"text": t}, one per item for a list; a start or end
\* that is missing is 0.0 and a language that is missing is "en".
C16_Normalization ==
    DOMAIN normalized # {} =>
        /\ WholeUtterance =>
              /\ normalized.segments =
                     <<[text |-> response.body.val["text"], start |-> 0, end |-> 0]>>
              /\ normalized.language =
                     IF "language" \in DOMAIN response.body.val
                       THEN response.body.val["language"] ELSE "en"
        /\ Segmented =>
              LET items == response.body.val
              IN  /\ Len(normalized.segments) = Len(items)
                  /\ \A i \in DOMAIN items :
                        /\ normalized.segments[i].text = items[i]["text"]
                        /\ normalized.segments[i].start =
                              IF "start" \in DOMAIN items[i] THEN items[i]["start"] ELSE 0
                        /\ normalized.segments[i].end =
                              IF "end" \in DOMAIN items[i] THEN items[i]["end"] ELSE 0
                  /\ normalized.language =
                        IF "language" \in DOMAIN items[1]
                          THEN items[1]["language"] ELSE "en"
        /\ (HiWhole \/ HiSegmented) =>
              /\ Len(normalized.segments) = 1
              /\ normalized.segments[1].text = Hi

\* a list of two items, the second with nothing but its text, has been normalized
C16_Witness ==
    /\ DOMAIN normalized # {}
    /\ Segmented
    /\ Len(response.body.val) = 2
    /\ DOMAIN response.body.val[1] = {"text", "start", "end"}
    /\ response.body.val[1]["start"] = 3
    /\ DOMAIN response.body.val[2] = {"text"}
    /\ normalized.segments[2] = [text |-> ThankYou, start |-> 0, end |-> 0]
    /\ normalized.language = "en"

\* C17: no frame is discarded but one that arrives while paused: run() never
\* discards a frame that the callback delivered, tested and enqueued with paused
\* false throughout.
C17_NoListeningFrameLost == ~lostListening

\* the frames that wait to become part of a chunk
Waiting ==
    Ids(audio_buffer) \cup {audio_queue[i].id : i \in DOMAIN audio_queue}
    \cup (IF ctl = "admit" THEN {audio_chunk.id} ELSE {})

\* C18: when a transcribe call starts, every event of the chunk before has been made
\* and the frames of the chunk are in delivery order and older than every frame that
\* still waits, so chunks reach the backend in the order they were assembled; and a
\* transcript is emitted or typed only with no call in flight, for the chunk whose
\* call has returned.
C18_OrderPreserved ==
    [][/\ inflight' > inflight =>
            /\ segs = <<>>
            /\ log = <<>>
            /\ \A i, j \in DOMAIN audio_data : i < j => audio_data[i] < audio_data[j]
            /\ \A x \in Ids(audio_data), y \in Waiting : x < y
       /\ (log' # log /\ log' # <<>>) =>
            /\ inflight = 0
            /\ inflight' = 0
            /\ audio_data # <<>>
            /\ audio_data' = audio_data]_vars

\* the call of a later chunk is in flight after a transcript of an earlier one, with
\* a frame waiting
C18_Witness ==
    /\ ctl = "inflight"
    /\ last_text # <<>>
    /\ audio_data # <<>>
    /\ audio_queue # <<>>

\* the state C19 gives a single writer
Owned ==
    <<language, auto_detect_language, initial_prompt, auto_type, model, audio_buffer>>

\* C19: while run() is inside its loop, a step that writes the language, the
\* auto-detect flag, the initial prompt, the auto-type flag, the model handle or the
\* audio buffer is a step of run() itself, every one of which moves run() on.
C19_SingleWriter == [][(InLoop /\ Owned' # Owned) => ctl' # ctl]_vars

\* C20: when WhisperModel(...) raises in run(), the statuses of the run are the two
\* of the loading, the error and then "Transcription stopped"; run() goes to its end
\* without opening the stream or calling transcribe, and leaves running false.
C20_LoadFailureEndsIdle ==
    runFailed =>
        /\ ctl \in {"finally", "none", "started"}
        /\ ~stream_open
        /\ inflight = 0
        /\ chunk_calls = 0
        /\ DOMAIN call_kwargs = {}
        /\ status = <<"Loading model...", "Creating new model instance...", "Error">>
                    \o (IF ctl = "finally" THEN <<>> ELSE <<"Transcription stopped">>)
        /\ ctl # "finally" => ~running

\* run() has ended after the model failed to load
C20_Witness ==
    /\ runFailed
    /\ ctl = "none"
    /\ ~running
    /\ Len(status) = 4

\* the events of a sequence of status or log events
Range(seq) == {seq[i] : i \in 1..Len(seq)}

\* C21: the input stream is open only inside the with block of run(), between the
\* entry of the loop and its exit; whenever run() is not executing the loop (before
\* start(), while the model loads, in the finally clause, after run() has returned,
\* and so after stop() has waited for the thread) the stream is closed.
C21_StreamNeverLeaked ==
    /\ stream_open => (ctl \in {"announce", "close"} \/ InLoop)
    /\ InLoop => stream_open
    /\ (uipc = "idle" /\ ~is_listening) => ~stream_open

\* a run that listened has returned, by stop() or by the end of the loop
C21_Witness ==
    /\ ctl = "none"
    /\ ~is_listening
    /\ uipc = "idle"
    /\ "Listening... Speak now!" \in Range(status)
    /\ ~stream_open

\* the frames run() holds or can still dequeue, oldest first: those of the chunk in
\* hand, the buffered ones, the dequeued one, and the queued ones
FramesHeld ==
    audio_data \o audio_buffer
    \o (IF audio_chunk = NoFrame THEN <<>> ELSE <<audio_chunk.id>>)
    \o [i \in 1..Len(audio_queue) |-> audio_queue[i].id]

\* a sequence of frames in arrival order, none of them twice
Increasing(seq) == \A i, j \in 1..Len(seq) : i < j => seq[i] < seq[j]

\* C22: a chunk comes into being only at a trigger, where it is the buffer followed by
\* the frame just dequeued, in arrival order, and the buffer is cleared in the same
\* step, so the buffer is empty when the backend call starts. A frame of the chunk is
\* nowhere else: every frame still buffered, dequeued or queued is newer than each
\* frame of the chunk, so no later chunk can hold it again.
C22_ChunkIsBufferOnce ==
    /\ [](Increasing(FramesHeld))
    /\ [](ctl \in {"call", "inflight"} => (audio_data # <<>> /\ audio_buffer = <<>>))
    /\ [][audio_data' \notin {audio_data, <<>>} =>
            /\ ctl = "admit" /\ ctl' = "call"
            /\ audio_data = <<>>
            /\ audio_data' = Append(audio_buffer, audio_chunk.id)
            /\ audio_buffer' = <<>>]_vars

\* the second chunk of a run is triggered: it holds the two frames that came after the
\* first chunk
C22_Witness ==
    /\ ctl = "call"
    /\ audio_data = <<2, 3>>
    /\ audio_buffer = <<>>

\* C23: when keyboard.type raises for a segment, the transcript event of that segment
\* was emitted just before the call; the call is made once (the next event, if any,
\* belongs to a later segment); the for loop is still iterating, with every segment
\* iterated so far emitted and typed as usual and the remaining ones still to come;
\* and run() keeps running with the stream open.
C23_TypingFailureNotFatal ==
    typeRaisedAt > 0 =>
        /\ typeRaisedAt > 1
        /\ typeRaisedAt <= Len(log)
        /\ log[typeRaisedAt].ev = "type"
        /\ log[typeRaisedAt - 1].ev = "transcript"
        /\ log[typeRaisedAt].text = Append(log[typeRaisedAt - 1].text, " ")
        /\ typeRaisedAt < Len(log) => log[typeRaisedAt + 1].ev = "transcript"
        /\ ctl \in {"segments", "autotype"}
        /\ stream_open
        /\ inflight = 0
        /\ log = Expected(done)
                 \o (IF ctl = "autotype"
                       THEN <<[ev |-> "transcript", text |-> Strip(Head(segs))]>>
                       ELSE <<>>)
        /\ \E i \in 1..Len(done) :
               /\ done[i].auto_type
               /\ Expected(SubSeq(done, 1, i)) = SubSeq(log, 1, typeRaisedAt)

\* after the typing of one segment failed, a later segment of the same chunk was
\* emitted and typed
C23_Witness ==
    /\ typeRaisedAt = 2
    /\ Len(log) = 4
    /\ log[3].ev = "transcript"
    /\ log[4].ev = "type"
    /\ ctl = "segments"

\* the language a call is made with, "None" when the key is absent
LanguageOf(kwargs) ==
    IF "language" \in DOMAIN kwargs THEN kwargs["language"] ELSE "None"

\* the language and the prompt that the configuration recorded at the trigger gives
TriggerLanguage ==
    IF ~trig_cfg[2] /\ trig_cfg[1] # "None" THEN trig_cfg[1] ELSE "None"
TriggerPrompt == trig_cfg[3]

C25_SessionsShareNoFrame ==
    /\ ctl = "open" => audio_queue = <<>>
    /\ ctl = "announce" => audio_buffer = <<>>

\* the response has status 200 and is an empty list, or an object or a list of objects
\* none of which has a text
NoTextResponse ==
    /\ response.status_code = 200
    /\ \/ /\ response.body.kind = "dict"
          /\ "text" \notin DOMAIN response.body.val
       \/ /\ response.body.kind = "list"
          /\ \A i \in DOMAIN response.body.val :
                 "text" \notin DOMAIN response.body.val[i]

\* C26: for such a response transcribe returns no segment with a text that is not
\* empty after trimming, so that the controller emits and types nothing.
C26_NoTextNoSegment ==
    (DOMAIN normalized # {} /\ NoTextResponse) =>
        \A i \in DOMAIN normalized.segments :
            Strip(normalized.segments[i].text) = <<>>

\* the request failed: requests.post raised, the status is not 200, or the body is
\* not JSON
FailedResponse ==
    \/ response.body.kind = "raised"
    \/ response.status_code # 200
    \/ response.body.kind = "invalid"

\* C27: for a failed request transcribe returns, instead of raising, no segments and
\* the info ("en", 0.0).
C27_FailureIsEmptyResult ==
    (DOMAIN normalized # {} /\ FailedResponse) =>
        /\ normalized.segments = <<>>
        /\ normalized.language = "en"
        /\ normalized.language_probability = 0

\* transcribe has returned for a response with status 503
C27_Witness ==
    /\ response.status_code = 503
    /\ DOMAIN normalized # {}
    /\ normalized.segments = <<>>

\* C28: whenever run() is at audio_queue.get, waiting for the next frame, the buffer
\* holds fewer than buffer_max_size frames, whatever frames, pauses and backend
\* failures came before.
C28_BufferBelowMax == ctl = "get" => Len(audio_buffer) < buffer_max_size

\* run() waits for a frame with four frames buffered, after a backend failure and a
\* pause that was resumed
C28_Witness ==
    /\ ctl = "get"
    /\ Len(audio_buffer) = buffer_max_size - 1
    /\ raisedOnce
    /\ Len(tp_hist) = 2
    /\ ~paused

\* p is the start of s
Prefix(p, s) == Len(p) <= Len(s) /\ SubSeq(s, 1, Len(p)) = p

\* C29: toggle_pause does not touch the buffer, in either direction. The frames that
\* were buffered at a pause stay at the start of the buffer, through the resume and
\* the frames accepted after it, and are the start of the chunk when the next trigger
\* comes. The buffer changes only on the run() thread: by the append of the dequeued
\* frame while not paused, by a trigger, which empties it into the chunk, and by the
\* start of a run, which clears it.
C29_PauseKeepsBuffer ==
    /\ [](IF ctl = "call" THEN Prefix(held, audio_data)
                          ELSE Prefix(held, audio_buffer))
    /\ [][paused' # paused => audio_buffer' = audio_buffer]_vars
    /\ [][audio_buffer' # audio_buffer =>
            \/ /\ ctl = "admit" /\ ~paused
               /\ audio_buffer' = Append(audio_buffer, audio_chunk.id)
            \/ /\ ctl = "admit" /\ ~paused
               /\ audio_buffer' = <<>>
               /\ audio_data' = Append(audio_buffer, audio_chunk.id)
            \/ /\ ctl = "open"
               /\ audio_buffer' = <<>>]_vars

\* after a pause and a resume, a chunk is triggered that starts with the frame
\* buffered before the pause and goes on with a frame accepted after the resume
C29_Witness ==
    /\ ctl = "call"
    /\ ~paused
    /\ Len(tp_hist) = 2
    /\ held # <<>>
    /\ Prefix(held, audio_data)
    /\ Len(audio_data) > Len(held)

\* run() has returned, or was started again and has not begun yet
Returned == ctl \in {"none", "started"} /\ status # <<>>

\* C30: "Transcription stopped" is not emitted while run() is at work; when run() has
\* returned, for whatever reason, it is the last status of the run and occurs once in
\* it, no chunk is being handled, so every transcript of the run came before it, the
\* stream is closed and self.running is false. A transcript is emitted only inside
\* the loop.
C30_RunEndsCleanly ==
    /\ [](~Returned => "Transcription stopped" \notin Range(status))
    /\ [](Returned =>
            /\ status[Len(status)] = "Transcription stopped"
            /\ \A i \in 1..(Len(status) - 1) : status[i] # "Transcription stopped"
            /\ ~running
            /\ ~stream_open
            /\ inflight = 0
            /\ log = <<>> /\ segs = <<>>)
    /\ [][log' \notin {log, <<>>} => (InLoop /\ InLoop')]_vars
    /\ [][ctl' = "none" /\ ctl # "none" =>
            /\ ctl = "finally"
            /\ status' = Append(status, "Transcription stopped")]_vars

\* a run that emitted a transcript was stopped and has returned
C30_Witness ==
    /\ ctl = "none"
    /\ last_text # <<>>
    /\ ~runFailed
    /\ status[Len(status)] = "Transcription stopped"
    /\ "Listening... Speak now!" \in Range(status)

====
